---- MODULE Spec2Model ----
(***************************************************************************)
(* A model of src/main.py of seo-manager: the run of main() over a catalog *)
(* of product rows, the per-item generate/verify/retry loop generate_seo,  *)
(* the response parser, the similarity gate and the progress file.         *)
(*                                                                         *)
(* Text is a sequence of one-character strings, so that strip, lower,      *)
(* split, the regular-expression substitutions and the similarity ratio    *)
(* are computed, not assumed.                                              *)
(***************************************************************************)
EXTENDS Integers, Sequences, FiniteSets, TLC

(***************************************************************************)
(* Program constants (src/main.py, CONFIGURATION)                          *)
(***************************************************************************)
MAX_RETRIES == 3
SERVER_RETRIES == 5
\* if server_retry == 4: raise
GiveUpRetry == 4
MAX_SEO_TITLE_LENGTH == 70
MAX_SEO_DESCRIPTION_LENGTH == 320
\* SIMILARITY_THRESHOLD = 0.80, kept as the fraction ThresholdNum / ThresholdDen
ThresholdNum == 4
ThresholdDen == 5
\* difflib.SequenceMatcher: autojunk applies once the second sequence has 200 elements
AutoJunkLen == 200
\* temperature=0.5 + (attempt * 0.15), in hundredths
TemperatureBase == 50
TemperatureStep == 15
\* API_DELAY, in seconds
API_DELAY == 5
\* wait = (server_retry + 1) * 8, in seconds
BackoffUnit == 8

(***************************************************************************)
(* Bounds of the model                                                     *)
(***************************************************************************)
MaxRuns == 2
MaxText == 3
MaxDetectRows == 2

(***************************************************************************)
(* Text helpers: the str methods and re.sub calls the program uses         *)
(***************************************************************************)
Whitespace == {" ", "\t", "\n"}

UpperLetters == <<"A", "B", "C", "D", "E", "F", "G", "H", "I", "J", "K", "L", "M", "N", "O", "P", "Q", "R", "S", "T", "U", "V", "W", "X", "Y", "Z">>
LowerLetters == <<"a", "b", "c", "d", "e", "f", "g", "h", "i", "j", "k", "l", "m", "n", "o", "p", "q", "r", "s", "t", "u", "v", "w", "x", "y", "z">>

\* str.lower() on one character
LowerChar(c) ==
    IF \E k \in 1..26 : UpperLetters[k] = c
    THEN LowerLetters[CHOOSE k \in 1..26 : UpperLetters[k] = c]
    ELSE c

\* str.lower()
Lower(s) == [k \in 1..Len(s) |-> LowerChar(s[k])]

\* s[n:] with n counted from 0
Drop(s, n) == SubSeq(s, n + 1, Len(s))

\* s[:n]
Take(s, n) == SubSeq(s, 1, IF n < Len(s) THEN n ELSE Len(s))

\* str.lstrip(), str.rstrip(), str.strip()
RECURSIVE LStrip(_)
LStrip(s) == IF s # <<>> /\ s[1] \in Whitespace THEN LStrip(Tail(s)) ELSE s

RECURSIVE RStrip(_)
RStrip(s) ==
    IF s # <<>> /\ s[Len(s)] \in Whitespace THEN RStrip(SubSeq(s, 1, Len(s) - 1)) ELSE s

Strip(s) == RStrip(LStrip(s))

\* str.startswith(p)
StartsWith(s, p) == Len(s) >= Len(p) /\ SubSeq(s, 1, Len(p)) = p

\* position of the first occurrence of character c in s, 0 when there is none
FirstIndex(s, c) ==
    IF \E k \in 1..Len(s) : s[k] = c
    THEN CHOOSE k \in 1..Len(s) : s[k] = c /\ \A m \in 1..(k - 1) : s[m] # c
    ELSE 0

\* str.split(sep) for a one-character separator
RECURSIVE Split(_, _)
Split(s, sep) ==
    IF FirstIndex(s, sep) = 0
    THEN <<s>>
    ELSE <<SubSeq(s, 1, FirstIndex(s, sep) - 1)>> \o Split(Drop(s, FirstIndex(s, sep)), sep)

\* line.split(":", 1)[1], for a line that contains a colon
AfterColon(line) == Drop(line, FirstIndex(line, ":"))

\* str.replace(c, "") for every character c of a set
RemoveChars(s, cs) == SelectSeq(s, LAMBDA c : c \notin cs)

\* position of the first occurrence of the text old in s, 0 when there is none
FirstOccurrence(s, old) ==
    LET at(k) == SubSeq(s, k, k + Len(old) - 1) = old
        places == {k \in 1..(Len(s) - Len(old) + 1) : at(k)}
    IN  IF places = {} THEN 0 ELSE CHOOSE k \in places : \A m \in places : k <= m

\* str.replace(old, new): non-overlapping occurrences, left to right
RECURSIVE Replace(_, _, _)
Replace(s, old, new) ==
    IF old = <<>> \/ FirstOccurrence(s, old) = 0
    THEN s
    ELSE SubSeq(s, 1, FirstOccurrence(s, old) - 1) \o new
         \o Replace(Drop(s, FirstOccurrence(s, old) - 1 + Len(old)), old, new)

\* position of the first "<" of s that opens a tag, 0 when there is none:
\* a "<", one or more characters other than ">", a ">"
FirstTag(s) ==
    LET places == {k \in 1..Len(s) : s[k] = "<" /\ FirstIndex(Drop(s, k), ">") > 1}
    IN  IF places = {} THEN 0 ELSE CHOOSE k \in places : \A m \in places : k <= m

\* re.sub(r"<[^>]+>", "", s)
RECURSIVE StripTags(_)
StripTags(s) ==
    IF FirstTag(s) = 0
    THEN s
    ELSE SubSeq(s, 1, FirstTag(s) - 1)
         \o StripTags(Drop(s, FirstTag(s) + FirstIndex(Drop(s, FirstTag(s)), ">")))

\* position of the first whitespace character of s, 0 when there is none
FirstSpace(s) ==
    LET places == {k \in 1..Len(s) : s[k] \in Whitespace}
    IN  IF places = {} THEN 0 ELSE CHOOSE k \in places : \A m \in places : k <= m

\* re.sub(r"\s+", " ", s): every run of whitespace becomes one space
RECURSIVE CollapseSpaces(_)
CollapseSpaces(s) ==
    IF FirstSpace(s) = 0
    THEN s
    ELSE SubSeq(s, 1, FirstSpace(s) - 1) \o <<" ">>
         \o CollapseSpaces(LStrip(Drop(s, FirstSpace(s) - 1)))

(***************************************************************************)
(* parse_seo_response                                                      *)
(***************************************************************************)
LabelTitle == <<"s", "e", "o", " ", "t", "i", "t", "l", "e", ":">>
LabelDescription == <<"s", "e", "o", " ", "d", "e", "s", "c", "r", "i", "p", "t", "i", "o", "n", ":">>
FauxLower == <<"f", "a", "u", "x", " ", "l", "e", "a", "t", "h", "e", "r">>
FauxCap == <<"F", "a", "u", "x", " ", "l", "e", "a", "t", "h", "e", "r">>
FauxTitle == <<"F", "a", "u", "x", " ", "L", "e", "a", "t", "h", "e", "r">>
VinylLower == <<"v", "i", "n", "y", "l">>
VinylCap == <<"V", "i", "n", "y", "l">>

\* [line.strip() for line in response_text.strip().split("\n") if line.strip()]
ResponseLines(response_text) ==
    SelectSeq([k \in 1..Len(Split(Strip(response_text), "\n")) |->
                  Strip(Split(Strip(response_text), "\n")[k])],
              LAMBDA line : line # <<>>)

\* the for loop over the lines: the last labelled line of each kind wins
RECURSIVE ScanLines(_, _)
ScanLines(lines, found) ==
    IF lines = <<>>
    THEN found
    ELSE ScanLines(Tail(lines),
                   IF StartsWith(Lower(lines[1]), LabelTitle)
                   THEN [found EXCEPT !.seo_title = Strip(AfterColon(lines[1]))]
                   ELSE IF StartsWith(Lower(lines[1]), LabelDescription)
                        THEN [found EXCEPT !.seo_description = Strip(AfterColon(lines[1]))]
                        ELSE found)

\* the clean-up of the description, in the order of the source
CleanDescription(d) ==
    Strip(CollapseSpaces(
        Replace(Replace(Replace(RemoveChars(StripTags(d), {"\"", "'"}),
                                FauxLower, VinylLower),
                        FauxCap, VinylCap),
                FauxTitle, VinylCap)))

\* parse_seo_response without the line that enforces the original title
parse_seo_response_TrustsResponse(response_text, original_title) ==
    LET scanned == ScanLines(ResponseLines(response_text),
                             [seo_title |-> original_title, seo_description |-> <<>>])
    IN  [seo_title       |-> Take(scanned.seo_title, MAX_SEO_TITLE_LENGTH),
         seo_description |-> Take(CleanDescription(scanned.seo_description),
                                  MAX_SEO_DESCRIPTION_LENGTH)]

\* parse_seo_response without the length limits
parse_seo_response_NoCaps(response_text, original_title) ==
    LET scanned == ScanLines(ResponseLines(response_text),
                             [seo_title |-> original_title, seo_description |-> <<>>])
    IN  [seo_title       |-> original_title,
         seo_description |-> CleanDescription(scanned.seo_description)]

parse_seo_response(response_text, original_title) ==
    LET scanned == ScanLines(ResponseLines(response_text),
                             [seo_title |-> original_title, seo_description |-> <<>>])
    IN  [seo_title       |-> Take(original_title, MAX_SEO_TITLE_LENGTH),
         seo_description |-> Take(CleanDescription(scanned.seo_description),
                                  MAX_SEO_DESCRIPTION_LENGTH)]

(***************************************************************************)
(* difflib.SequenceMatcher(None, a, b).ratio(), as check_similarity uses   *)
(* it.  Positions are counted from 1 and windows lo..hi are inclusive.     *)
(***************************************************************************)
\* an element of b that autojunk drops from the index of b
Popular(b, c) ==
    /\ Len(b) >= AutoJunkLen
    /\ Cardinality({k \in 1..Len(b) : b[k] = c}) > (Len(b) \div 100) + 1

\* j2len: the length of the run of indexed matches that ends at a[i], b[j]
RECURSIVE RunLen(_, _, _, _, _, _)
RunLen(a, b, i, j, alo, blo) ==
    IF i < alo \/ j < blo
    THEN 0
    ELSE IF a[i] = b[j] /\ ~Popular(b, b[j])
         THEN 1 + RunLen(a, b, i - 1, j - 1, alo, blo)
         ELSE 0

\* the two loops that extend a block over equal elements on either side
RECURSIVE ExtendBack(_, _, _, _, _, _)
ExtendBack(a, b, i, j, alo, blo) ==
    IF i > alo /\ j > blo /\ a[i - 1] = b[j - 1]
    THEN 1 + ExtendBack(a, b, i - 1, j - 1, alo, blo)
    ELSE 0

RECURSIVE ExtendFwd(_, _, _, _, _, _)
ExtendFwd(a, b, i, j, ahi, bhi) ==
    IF i <= ahi /\ j <= bhi /\ a[i] = b[j]
    THEN 1 + ExtendFwd(a, b, i + 1, j + 1, ahi, bhi)
    ELSE 0

\* find_longest_match: the longest block, the earliest in a and then in b
find_longest_match(a, b, alo, ahi, blo, bhi) ==
    LET run == [p \in (alo..ahi) \X (blo..bhi) |-> RunLen(a, b, p[1], p[2], alo, blo)]
        size == IF DOMAIN run = {} THEN 0
                ELSE CHOOSE k \in {run[p] : p \in DOMAIN run} :
                         \A p \in DOMAIN run : run[p] <= k
        ends == {p \in DOMAIN run : run[p] = size}
        iend == CHOOSE i \in {p[1] : p \in ends} : \A p \in ends : i <= p[1]
        jend == CHOOSE j \in {p[2] : p \in {q \in ends : q[1] = iend}} :
                    \A p \in {q \in ends : q[1] = iend} : j <= p[2]
        besti == IF size = 0 THEN alo ELSE iend - size + 1
        bestj == IF size = 0 THEN blo ELSE jend - size + 1
        back == ExtendBack(a, b, besti, bestj, alo, blo)
        fwd == ExtendFwd(a, b, besti + size, bestj + size, ahi, bhi)
    IN  [i |-> besti - back, j |-> bestj - back, size |-> size + back + fwd]

\* get_matching_blocks: the total size of the blocks found left and right
RECURSIVE MatchTotal(_, _, _, _, _, _)
MatchTotal(a, b, alo, ahi, blo, bhi) ==
    IF alo > ahi \/ blo > bhi
    THEN 0
    ELSE LET m == find_longest_match(a, b, alo, ahi, blo, bhi)
         IN  IF m.size = 0
             THEN 0
             ELSE m.size
                  + MatchTotal(a, b, alo, m.i - 1, blo, m.j - 1)
                  + MatchTotal(a, b, m.i + m.size, ahi, m.j + m.size, bhi)

\* ratio(): 2.0 * matches / length, 1.0 for two empty sequences; a fraction <<num, den>>
Ratio(a, b) ==
    IF Len(a) + Len(b) = 0
    THEN <<1, 1>>
    ELSE <<2 * MatchTotal(a, b, 1, Len(a), 1, Len(b)), Len(a) + Len(b)>>

\* x < y and x > y on fractions with positive denominators
FracLess(x, y) == x[1] * y[2] < y[1] * x[2]

(***************************************************************************)
(* check_similarity                                                        *)
(***************************************************************************)
\* WorstOf with score >= worst_score: keeps the last pool member of the largest score
RECURSIVE WorstOf_KeepsLast(_, _, _)
WorstOf_KeepsLast(new_desc, existing, worst) ==
    IF existing = <<>>
    THEN worst
    ELSE WorstOf_KeepsLast(new_desc, Tail(existing),
                 IF ~FracLess(Ratio(Lower(new_desc), Lower(existing[1])), worst.score)
                 THEN [score |-> Ratio(Lower(new_desc), Lower(existing[1])),
                       match |-> existing[1]]
                 ELSE worst)

\* the for loop: keeps the first pool member that attains the largest score
RECURSIVE WorstOf(_, _, _)
WorstOf(new_desc, existing, worst) ==
    IF existing = <<>>
    THEN worst
    ELSE WorstOf(new_desc, Tail(existing),
                 IF FracLess(worst.score, Ratio(Lower(new_desc), Lower(existing[1])))
                 THEN [score |-> Ratio(Lower(new_desc), Lower(existing[1])),
                       match |-> existing[1]]
                 ELSE worst)

\* worst_score < SIMILARITY_THRESHOLD
BelowThreshold(score) == FracLess(score, <<ThresholdNum, ThresholdDen>>)

check_similarity(new_desc, existing_descriptions) ==
    IF existing_descriptions = <<>>
    THEN [is_ok |-> TRUE, score |-> <<0, 1>>, match |-> <<>>]
    ELSE LET worst == WorstOf(new_desc, existing_descriptions,
                              [score |-> <<0, 1>>, match |-> <<>>])
         IN  [is_ok |-> BelowThreshold(worst.score),
              score |-> worst.score,
              match |-> worst.match]

(***************************************************************************)
(* The catalog, the service responses and the files                        *)
(***************************************************************************)
\* rows of the input CSV: the columns main() reads or writes
Row(handle, title, seo_title, seo_description) ==
    [Handle |-> handle, Title |-> title, SEOTitle |-> seo_title,
     SEODescription |-> seo_description]

\* the catalogs of the model: a new product next to one that already has SEO data;
\* two new products, the first with a second row (same handle, no title) that
\* carries a description; and the empty export. A handle identifies one product.
Catalogs ==
    { << Row(<<"h">>, <<"T", " ">>, <<>>, <<>>),
         Row(<<"g">>, <<"U">>, <<"U">>, <<" ", "a", "b">>) >>,
      << Row(<<"h">>, <<"T">>, <<>>, <<>>),
         Row(<<"h", " ">>, <<" ">>, <<>>, <<"a", "b", " ">>),
         Row(<<" ", "k">>, <<"K">>, <<>>, <<>>) >>,
      << >> }

\* response.choices[0].message.content of a successful service call
RespAB == <<"S", "E", "O", " ", "T", "i", "t", "l", "e", ":", " ", "X", "\n", "S", "E", "O", " ", "D", "e", "s", "c", "r", "i", "p", "t", "i", "o", "n", ":", " ", "\"", "a", "b", "\"">>
RespABC == <<"s", "e", "o", " ", "d", "e", "s", "c", "r", "i", "p", "t", "i", "o", "n", ":", " ", " ", "a", "b", "c", " ">>
RespNone == <<"c", "d">>
Responses == {RespAB, RespABC, RespNone}

\* code point order of the characters of the model, for sorted()
CodeOrder == <<"\t", "\n", " ", "\"", "'", ":", "<", ">">> \o UpperLetters \o LowerLetters
Ord(c) == CHOOSE k \in 1..Len(CodeOrder) : CodeOrder[k] = c

RECURSIVE StrLess(_, _)
StrLess(s, t) ==
    IF t = <<>> THEN FALSE
    ELSE IF s = <<>> THEN TRUE
    ELSE IF s[1] = t[1] THEN StrLess(Tail(s), Tail(t))
    ELSE Ord(s[1]) < Ord(t[1])

RECURSIVE Sorted(_)
Sorted(S) ==
    IF S = {} THEN <<>>
    ELSE LET least == CHOOSE s \in S : \A t \in S \ {s} : StrLess(s, t)
         IN  <<least>> \o Sorted(S \ {least})

Range(f) == {f[k] : k \in DOMAIN f}

\* PROGRESS_FILE and OUTPUT_CSV before they are first written
NoFile == [exists |-> FALSE, content |-> <<>>]

\* load_progress: the set of the handles listed in the file, empty without a file
load_progress(file) == IF file.exists THEN Range(file.content) ELSE {}

\* save_progress: the whole set, sorted, replaces the file
save_progress(processed) == [exists |-> TRUE, content |-> Sorted(processed)]

(***************************************************************************)
(* detect_product_type                                                     *)
(***************************************************************************)
\* PRODUCT_TYPE_KEYWORDS, one list per product type
WallClockKeywords ==
    << <<"c", "l", "o", "c", "k">>,
       <<"w", "a", "l", "l", " ", "c", "l", "o", "c", "k">>,
       <<"t", "i", "m", "e", "p", "i", "e", "c", "e">>,
       <<"h", "o", "u", "r", " ", "h", "a", "n", "d">>,
       <<"m", "i", "n", "u", "t", "e", " ", "h", "a", "n", "d">>,
       <<"q", "u", "a", "r", "t", "z">>,
       <<"p", "e", "n", "d", "u", "l", "u", "m">>,
       <<"a", "n", "a", "l", "o", "g">>,
       <<"d", "i", "a", "l">>,
       <<"r", "o", "m", "a", "n", " ", "n", "u", "m", "e", "r", "a", "l">>,
       <<"s", "w", "e", "e", "p", " ", "m", "o", "v", "e", "m", "e", "n", "t">>,
       <<"t", "i", "c", "k", "i", "n", "g">>,
       <<"c", "l", "o", "c", "k", " ", "f", "a", "c", "e">>,
       <<"c", "l", "o", "c", "k", " ", "h", "a", "n", "d", "s">> >>

WaterBottleKeywords ==
    << <<"w", "a", "t", "e", "r", " ", "b", "o", "t", "t", "l", "e">>,
       <<"b", "o", "t", "t", "l", "e">>,
       <<"t", "u", "m", "b", "l", "e", "r">>,
       <<"h", "y", "d", "r", "a", "t", "i", "o", "n">>,
       <<"f", "l", "a", "s", "k">>,
       <<"d", "r", "i", "n", "k", " ", "b", "o", "t", "t", "l", "e">>,
       <<"s", "p", "o", "r", "t", "s", " ", "b", "o", "t", "t", "l", "e">>,
       <<"i", "n", "s", "u", "l", "a", "t", "e", "d", " ", "b", "o", "t", "t", "l", "e">>,
       <<"b", "p", "a", " ", "f", "r", "e", "e">>,
       <<"s", "t", "a", "i", "n", "l", "e", "s", "s", " ", "s", "t", "e", "e", "l", " ", "b", "o", "t", "t", "l", "e">>,
       <<"r", "e", "u", "s", "a", "b", "l", "e", " ", "b", "o", "t", "t", "l", "e">>,
       <<"t", "h", "e", "r", "m", "o", "s">>,
       <<"b", "e", "v", "e", "r", "a", "g", "e", " ", "c", "o", "n", "t", "a", "i", "n", "e", "r">>,
       <<"s", "i", "p", "p", "y">>,
       <<"s", "t", "r", "a", "w", " ", "l", "i", "d">> >>

LampShadeKeywords ==
    << <<"l", "a", "m", "p", " ", "s", "h", "a", "d", "e">>,
       <<"l", "a", "m", "p", "s", "h", "a", "d", "e">>,
       <<"s", "h", "a", "d", "e">>,
       <<"l", "a", "m", "p">>,
       <<"l", "i", "g", "h", "t", " ", "s", "h", "a", "d", "e">>,
       <<"l", "i", "g", "h", "t", "i", "n", "g">>,
       <<"p", "e", "n", "d", "a", "n", "t", " ", "s", "h", "a", "d", "e">>,
       <<"t", "a", "b", "l", "e", " ", "l", "a", "m", "p">>,
       <<"f", "l", "o", "o", "r", " ", "l", "a", "m", "p">>,
       <<"d", "r", "u", "m", " ", "s", "h", "a", "d", "e">>,
       <<"c", "o", "n", "e", " ", "s", "h", "a", "d", "e">>,
       <<"b", "e", "l", "l", " ", "s", "h", "a", "d", "e">>,
       <<"f", "a", "b", "r", "i", "c", " ", "s", "h", "a", "d", "e">>,
       <<"l", "i", "n", "e", "n", " ", "s", "h", "a", "d", "e">>,
       <<"s", "i", "l", "k", " ", "s", "h", "a", "d", "e">> >>

\* the keys of PRODUCT_TYPE_KEYWORDS and of scores, in declaration order
ProductTypes == <<"wall_clocks", "water_bottles", "lamp_shades">>

PRODUCT_TYPE_KEYWORDS ==
    [wall_clocks |-> WallClockKeywords,
     water_bottles |-> WaterBottleKeywords,
     lamp_shades |-> LampShadeKeywords]

\* row.get(key, default)
Get(row, key, default) == IF key \in DOMAIN row THEN row[key] ELSE default

\* keyword in text
Contains(text, keyword) ==
    \E k \in 0..(Len(text) - Len(keyword)) : SubSeq(text, k + 1, k + Len(keyword)) = keyword

\* the text of one row: title, body, type and tags, joined by spaces, lower-cased
RowText(row) ==
    Lower(Get(row, "Title", <<>>) \o <<" ">> \o Get(row, "Body", <<>>) \o <<" ">>
          \o Get(row, "Type", <<>>) \o <<" ">> \o Get(row, "Tags", <<>>))

\* what one row adds to the score of a product type: one per keyword its text contains
RowScore(row, product_type) ==
    Cardinality({k \in 1..Len(PRODUCT_TYPE_KEYWORDS[product_type]) :
                    Contains(RowText(row), PRODUCT_TYPE_KEYWORDS[product_type][k])})

\* scores[product_type] after the loop over the rows
RECURSIVE TypeScore(_, _)
TypeScore(rws, product_type) ==
    IF rws = <<>>
    THEN 0
    ELSE RowScore(rws[1], product_type) + TypeScore(Tail(rws), product_type)

\* MaxByScore that keeps the last key with the largest score
RECURSIVE MaxByScore_KeepsLast(_, _, _)
MaxByScore_KeepsLast(types, scores, best) ==
    IF types = <<>>
    THEN best
    ELSE MaxByScore_KeepsLast(Tail(types), scores,
                              IF scores[types[1]] >= scores[best] THEN types[1] ELSE best)

\* max(scores, key=scores.get): the first key, in iteration order, with the largest score
RECURSIVE MaxByScore(_, _, _)
MaxByScore(types, scores, best) ==
    IF types = <<>>
    THEN best
    ELSE MaxByScore(Tail(types), scores,
                    IF scores[types[1]] > scores[best] THEN types[1] ELSE best)

detect_product_type(rws) ==
    LET scores == [t \in {"wall_clocks", "water_bottles", "lamp_shades"} |-> TypeScore(rws, t)]
        detected == MaxByScore(Tail(ProductTypes), scores, ProductTypes[1])
    IN  IF scores[detected] = 0 THEN "wall_clocks" ELSE detected

(***************************************************************************)
(* main(): the pure steps                                                  *)
(***************************************************************************)
\* StartupProgress that loads the progress file in overwrite mode too
StartupProgress_KeepsProgress(ow, file) == load_progress(file)

\* main, "Load progress": the set the run starts from
StartupProgress(ow, file) == IF ow THEN {} ELSE load_progress(file)

\* StartupFile that leaves the progress file in place in overwrite mode
StartupFile_KeepsFile(ow, file) == file

\* main, "Load progress": overwrite mode removes the progress file
StartupFile(ow, file) == IF ow THEN NoFile ELSE file

\* NeedsSeo without the test on processed_handles in normal mode
NeedsSeo_IgnoresProgress(row, ow, processed) ==
    IF ow
    THEN Strip(row.Title) # <<>> /\ Strip(row.Handle) \notin processed
    ELSE Strip(row.Title) # <<>> /\ Strip(row.SEODescription) = <<>>

\* main, "Identify product rows needing SEO": the test on one row
NeedsSeo(row, ow, processed) ==
    IF ow
    THEN Strip(row.Title) # <<>> /\ Strip(row.Handle) \notin processed
    ELSE /\ Strip(row.Title) # <<>>
         /\ Strip(row.SEODescription) = <<>>
         /\ Strip(row.Handle) \notin processed

\* products_to_process, as the indices of the selected rows in catalog order
SelectProducts(rws, ow, processed) ==
    SelectSeq([k \in 1..Len(rws) |-> k], LAMBDA k : NeedsSeo(rws[k], ow, processed))

\* CollectExisting without the test on the mode
CollectExisting_AnyMode(rws, ow) ==
    LET kept == SelectSeq(rws, LAMBDA row : Strip(row.SEODescription) # <<>>)
    IN  [k \in 1..Len(kept) |-> Strip(kept[k].SEODescription)]

\* main, "Collect existing descriptions for similarity checking"
CollectExisting(rws, ow) ==
    LET kept == SelectSeq(rws, LAMBDA row : Strip(row.SEODescription) # <<>> /\ ~ow)
    IN  [k \in 1..Len(kept) |-> Strip(kept[k].SEODescription)]

(***************************************************************************)
(* State                                                                   *)
(***************************************************************************)
VARIABLES
    inputCsv,               \* INPUT_CSV: the rows of the catalog
    progressFile,           \* PROGRESS_FILE
    outputCsv,              \* OUTPUT_CSV
    pc,                     \* where the process is in main() / generate_seo()
    overwrite,              \* "--overwrite" in sys.argv
    api_key,                \* API_KEY is set
    input_exists,           \* os.path.exists(INPUT_CSV)
    processed_handles,      \* main: processed_handles
    rows,                   \* main: rows
    products_to_process,    \* main: products_to_process (row indices)
    existing_descriptions,  \* main: existing_descriptions, the description pool
    idx,                    \* main: position in products_to_process, from 1
    DETECTED_PRODUCT_TYPE,  \* module global: the product type main() detected
    attempt,                \* generate_seo: attempt
    server_retry,           \* generate_seo: server_retry
    response,               \* generate_seo: the text of the last response
    candidate,              \* generate_seo: seo_title, seo_description
    variation_hint,         \* generate_seo: the hint of the prompt, as the number of the
                            \*               get_variation_hint draw of this call it came from
    verdict,                \* generate_seo: is_ok, score, similar_to of the last gate check
    observing,              \* history: the per-item counters are kept (SpecItem)
    runs,                   \* history: number of runs started
    afterCrash,             \* history: the previous run was terminated from outside
    startProgress,          \* history: the persisted progress set when the run started
    requested,              \* history: row indices a service request was issued for, this run
    requests,               \* history: service requests issued for the current item
    attemptRequests,        \* history: service requests issued in the current attempt
    failures,               \* history: failed service calls of the current item
    lastCall,               \* history: outcome of the last service call of the current item
    rejections,             \* history: candidates of the current item the gate rejected
    result,                 \* history: outcome of the current item
    returned,               \* history: per completed item of this run, the row and the
                            \*          description generate_seo returned for it
    itemStart,              \* history: idx, rows, pool and progress when the item began
    lastRequest,            \* history: temperature and prompt of the last service request
                            \*          of the generate_seo call in progress
    started,                \* history: the rows whose processing began in this run, in order
    waits,                  \* history: the seconds of each time.sleep since the last service
                            \*          request of the run (kept while observing)
    priorRun,               \* history: how the run before this one went
    written,                \* history: this run has written OUTPUT_CSV
    persistedWork           \* history: per row, the description whose handle was persisted

disk == <<inputCsv, progressFile, outputCsv>>
env == <<overwrite, api_key, input_exists>>
mainVars == <<processed_handles, rows, products_to_process, existing_descriptions, idx,
              DETECTED_PRODUCT_TYPE>>
genVars == <<attempt, server_retry, response, candidate, variation_hint, verdict>>
itemHist == <<requests, attemptRequests, failures, lastCall, rejections, result, itemStart,
              lastRequest, waits>>
runHist == <<observing, runs, afterCrash, startProgress, requested, returned, started, written,
             priorRun>>
vars == <<disk, pc, env, mainVars, genVars, itemHist, runHist, persistedWork>>

NoCandidate == [seo_title |-> <<>>, seo_description |-> <<>>]
NoSnapshot == [idx |-> 0, rows |-> <<>>, pool |-> <<>>, processed |-> {}, file |-> NoFile]
\* is_ok, score, similar_to before the first gate check of a call
NoVerdict == [is_ok |-> FALSE, score |-> <<0, 1>>, match |-> <<>>]
\* no request has been issued in the call in progress
NoRequest == [temperature |-> 0, prompt |-> 0]
\* DETECTED_PRODUCT_TYPE = None
NoProductType == "None"

\* the process is not running
Stopped == {"idle", "done", "aborted", "crashed"}
\* the process is inside generate_seo
InGenerate == {"attempt", "request", "backoff", "parse", "reject_wait"}

\* the row of the item being processed, its title and its handle (main, loop head)
CurRow == products_to_process[idx]
CurTitle == Strip(rows[CurRow].Title)
CurHandle == Strip(rows[CurRow].Handle)

Init ==
    /\ inputCsv \in Catalogs
    /\ progressFile = NoFile
    /\ outputCsv = NoFile
    /\ pc = "idle"
    /\ overwrite = FALSE
    /\ api_key = FALSE
    /\ input_exists = FALSE
    /\ processed_handles = {}
    /\ rows = <<>>
    /\ products_to_process = <<>>
    /\ existing_descriptions = <<>>
    /\ idx = 0
    /\ DETECTED_PRODUCT_TYPE = NoProductType
    /\ attempt = 0
    /\ server_retry = 0
    /\ response = <<>>
    /\ candidate = NoCandidate
    /\ variation_hint = 0
    /\ verdict = NoVerdict
    /\ observing = FALSE
    /\ runs = 0
    /\ afterCrash = FALSE
    /\ startProgress = {}
    /\ requested = {}
    /\ requests = 0
    /\ attemptRequests = 0
    /\ failures = 0
    /\ lastCall = "none"
    /\ rejections = 0
    /\ result = "none"
    /\ returned = <<>>
    /\ itemStart = NoSnapshot
    /\ lastRequest = NoRequest
    /\ started = <<>>
    /\ waits = <<>>
    /\ priorRun = "none"
    /\ written = FALSE
    /\ persistedWork = [k \in 1..Len(inputCsv) |-> <<>>]

\* a fresh process: every local of main() and generate_seo() is unset
FreshMemory ==
    /\ processed_handles' = {}
    /\ rows' = <<>>
    /\ products_to_process' = <<>>
    /\ existing_descriptions' = <<>>
    /\ idx' = 0
    /\ DETECTED_PRODUCT_TYPE' = NoProductType
    /\ attempt' = 0
    /\ server_retry' = 0
    /\ response' = <<>>
    /\ candidate' = NoCandidate
    /\ variation_hint' = 0
    /\ verdict' = NoVerdict
    /\ requested' = {}
    /\ requests' = 0
    /\ attemptRequests' = 0
    /\ failures' = 0
    /\ lastCall' = "none"
    /\ rejections' = 0
    /\ result' = "none"
    /\ returned' = <<>>
    /\ itemStart' = NoSnapshot
    /\ lastRequest' = NoRequest
    /\ started' = <<>>
    /\ waits' = <<>>
    /\ written' = FALSE

(***************************************************************************)
(* main(): start of a run                                                  *)
(***************************************************************************)
\* the history of a run that no step of the loop changes
runFixed == <<observing, runs, afterCrash, startProgress, started, written, priorRun>>

\* how the run that has just ended went: "clean" for a run without --overwrite
\* that wrote its output after generate_seo returned for every selected item
EndedRun ==
    IF runs = 0 THEN "none"
    ELSE IF /\ pc = "done"
            /\ ~overwrite
            /\ Range(products_to_process) = {returned[k].row : k \in 1..Len(returned)}
         THEN "clean"
         ELSE "other"

\* the program is started: flag, credential and input file are the environment's
Launch(ow, key, inp) ==
    /\ pc \in Stopped
    /\ runs < MaxRuns
    /\ pc' = "check_key"
    /\ overwrite' = ow
    /\ api_key' = key
    /\ input_exists' = inp
    /\ runs' = runs + 1
    /\ afterCrash' = (pc = "crashed")
    /\ priorRun' = EndedRun
    /\ UNCHANGED observing
    /\ startProgress' = load_progress(progressFile)
    /\ FreshMemory
    /\ UNCHANGED <<disk, persistedWork>>

\* CheckKey that goes on without a credential
CheckKey_Ignored ==
    /\ pc = "check_key"
    /\ pc' = "load_progress"
    /\ UNCHANGED <<disk, env, mainVars, genVars, itemHist, runHist, persistedWork>>

\* if not API_KEY: return
CheckKey ==
    /\ pc = "check_key"
    /\ pc' = IF api_key THEN "load_progress" ELSE "aborted"
    /\ UNCHANGED <<disk, env, mainVars, genVars, itemHist, runHist, persistedWork>>

\* "Load progress": overwrite clears the set and removes the file
LoadProgress ==
    /\ pc = "load_progress"
    /\ processed_handles' = StartupProgress(overwrite, progressFile)
    /\ progressFile' = StartupFile(overwrite, progressFile)
    /\ persistedWork' = IF progressFile' = progressFile
                        THEN persistedWork
                        ELSE [k \in DOMAIN persistedWork |-> <<>>]
    /\ pc' = "check_input"
    /\ UNCHANGED <<inputCsv, outputCsv, env, rows, products_to_process,
                   existing_descriptions, idx, DETECTED_PRODUCT_TYPE, genVars, itemHist,
                   runHist>>

\* if not os.path.exists(INPUT_CSV): return
CheckInput ==
    /\ pc = "check_input"
    /\ pc' = IF input_exists THEN "read_input" ELSE "aborted"
    /\ UNCHANGED <<disk, env, mainVars, genVars, itemHist, runHist, persistedWork>>

\* read the CSV, detect the product type, select the rows to process, collect the pool
ReadInput ==
    /\ pc = "read_input"
    /\ rows' = inputCsv
    /\ DETECTED_PRODUCT_TYPE' = detect_product_type(inputCsv)
    /\ products_to_process' = SelectProducts(inputCsv, overwrite, processed_handles)
    /\ existing_descriptions' = CollectExisting(inputCsv, overwrite)
    /\ idx' = 1
    /\ pc' = IF products_to_process' = <<>> THEN "write_output" ELSE "item"
    /\ UNCHANGED <<disk, env, processed_handles, genVars, itemHist, runHist, persistedWork>>

(***************************************************************************)
(* main(): the loop over products_to_process, with generate_seo inlined    *)
(***************************************************************************)
\* loop head and the call of generate_seo: for attempt in range(MAX_RETRIES)
ItemBegin ==
    /\ pc = "item"
    /\ attempt' = 0
    /\ server_retry' = 0
    /\ response' = <<>>
    /\ candidate' = NoCandidate
    /\ variation_hint' = 0
    /\ verdict' = NoVerdict
    /\ requests' = 0
    /\ attemptRequests' = 0
    /\ failures' = 0
    /\ lastCall' = "none"
    /\ rejections' = 0
    /\ result' = "none"
    /\ itemStart' = [idx |-> idx, rows |-> rows, pool |-> existing_descriptions,
                     processed |-> processed_handles, file |-> progressFile]
    /\ lastRequest' = NoRequest
    /\ started' = Append(started, CurRow)
    /\ pc' = "attempt"
    /\ UNCHANGED <<disk, env, mainVars, observing, runs, afterCrash, startProgress,
                   requested, returned, written, waits, priorRun, persistedWork>>

\* get_variation_hint draws the hint and the prompt of the attempt is built:
\* for server_retry in range(5)
AttemptBegin ==
    /\ pc = "attempt"
    /\ server_retry' = 0
    /\ attemptRequests' = 0
    /\ variation_hint' = variation_hint + 1
    /\ pc' = "request"
    /\ UNCHANGED <<disk, env, mainVars, attempt, response, candidate, verdict,
                   requests, failures, lastCall, rejections, result, itemStart, lastRequest,
                   waits, runHist, persistedWork>>

\* the per-item call history is kept only while observing
Count(n) == IF observing THEN n + 1 ELSE n
Note(outcome) == IF observing THEN outcome ELSE "none"
Slept(seconds) == IF observing THEN Append(waits, seconds) ELSE waits

\* RequestParams with a temperature that rises with the server retries too
RequestParams_HeatsOnRetry ==
    [temperature |-> TemperatureBase + (attempt + server_retry) * TemperatureStep,
     prompt      |-> variation_hint]

\* temperature=0.5 + (attempt * 0.15), in hundredths, and the prompt of the request
RequestParams ==
    [temperature |-> TemperatureBase + attempt * TemperatureStep,
     prompt      |-> variation_hint]

\* what every service request records
Issue ==
    /\ requests' = Count(requests)
    /\ attemptRequests' = Count(attemptRequests)
    /\ requested' = requested \cup {CurRow}
    /\ lastRequest' = RequestParams
    /\ waits' = <<>>

\* generate_seo returns or raises: its locals go out of scope
LeaveGenerate ==
    /\ attempt' = 0
    /\ server_retry' = 0
    /\ variation_hint' = 0

\* client.chat.completions.create returns: break ends the server_retry loop
RequestOk(r) ==
    /\ pc = "request"
    /\ Issue
    /\ response' = r
    /\ server_retry' = 0
    /\ lastCall' = Note("ok")
    /\ pc' = "parse"
    /\ UNCHANGED <<disk, env, mainVars, attempt, candidate, variation_hint, verdict,
                   failures, rejections, result, itemStart, runFixed, returned,
                   persistedWork>>

\* the call raises and the error text names a server or rate-limit error
RequestTransient ==
    /\ pc = "request"
    /\ Issue
    /\ failures' = Count(failures)
    /\ lastCall' = Note("transient")
    /\ pc' = "backoff"
    /\ UNCHANGED <<disk, env, mainVars, genVars, rejections, result, itemStart,
                   runFixed, returned, persistedWork>>

\* the call raises any other error: raise
RequestFatal ==
    /\ pc = "request"
    /\ Issue
    /\ failures' = Count(failures)
    /\ lastCall' = Note("fatal")
    /\ result' = "failed"
    /\ LeaveGenerate
    /\ pc' = "except"
    /\ UNCHANGED <<disk, env, mainVars, response, candidate, verdict, rejections, itemStart,
                   runFixed, returned, persistedWork>>

\* Backoff without the give-up test: the retry loop never raises
Backoff_NeverGivesUp ==
    /\ pc = "backoff"
    /\ server_retry' = server_retry + 1
    /\ pc' = "request"
    /\ UNCHANGED <<disk, env, mainVars, attempt, response, candidate, variation_hint, verdict,
                   itemHist, runHist, persistedWork>>

\* BackoffWait that does not grow with the retries
BackoffWait_Flat == BackoffUnit

\* wait = (server_retry + 1) * 8
BackoffWait == (server_retry + 1) * BackoffUnit

\* time.sleep(wait); if server_retry == 4: raise, else the next server_retry
Backoff ==
    /\ pc = "backoff"
    /\ waits' = Slept(BackoffWait)
    /\ IF server_retry = GiveUpRetry
       THEN /\ result' = "failed"
            /\ LeaveGenerate
            /\ pc' = "except"
       ELSE /\ server_retry' = server_retry + 1
            /\ pc' = "request"
            /\ UNCHANGED <<attempt, variation_hint, result>>
    /\ UNCHANGED <<disk, env, mainVars, response, candidate, verdict,
                   requests, attemptRequests, failures, lastCall, rejections, itemStart,
                   lastRequest, runHist, persistedWork>>

\* parse_seo_response, check_similarity, and the return of an accepted candidate
ParseAndGate ==
    /\ pc = "parse"
    /\ candidate' = parse_seo_response(response, CurTitle)
    /\ verdict' = check_similarity(candidate'.seo_description, existing_descriptions)
    /\ IF verdict'.is_ok
       THEN /\ result' = "accepted"
            /\ returned' = Append(returned, [row |-> CurRow,
                                             description |-> candidate'.seo_description])
            /\ LeaveGenerate
            /\ pc' = "update_row"
            /\ UNCHANGED rejections
       ELSE /\ rejections' = rejections + 1
            /\ pc' = "reject_wait"
            /\ UNCHANGED <<attempt, server_retry, variation_hint, result, returned>>
    /\ UNCHANGED <<disk, env, mainVars, response,
                   requests, attemptRequests, failures, lastCall, itemStart, lastRequest,
                   waits, runFixed, requested, persistedWork>>

\* RejectWait that raises when the attempts are used up
RejectWait_RaisesWhenExhausted ==
    /\ pc = "reject_wait"
    /\ waits' = Slept(API_DELAY)
    /\ IF attempt + 1 < MAX_RETRIES
       THEN /\ attempt' = attempt + 1
            /\ pc' = "attempt"
            /\ UNCHANGED <<server_retry, variation_hint, result>>
       ELSE /\ result' = "failed"
            /\ LeaveGenerate
            /\ pc' = "except"
    /\ UNCHANGED <<disk, env, mainVars, response, candidate, verdict,
                   requests, attemptRequests, failures, lastCall, rejections, itemStart,
                   lastRequest, runHist, persistedWork>>

\* RejectWait with range(MAX_RETRIES - 1): one attempt short
RejectWait_OneAttemptShort ==
    /\ pc = "reject_wait"
    /\ waits' = Slept(API_DELAY)
    /\ IF attempt + 2 < MAX_RETRIES
       THEN /\ attempt' = attempt + 1
            /\ pc' = "attempt"
            /\ UNCHANGED <<server_retry, variation_hint, result, returned>>
       ELSE /\ result' = "exhausted"
            /\ returned' = Append(returned, [row |-> CurRow,
                                             description |-> candidate.seo_description])
            /\ LeaveGenerate
            /\ pc' = "update_row"
    /\ UNCHANGED <<disk, env, mainVars, response, candidate, verdict,
                   requests, attemptRequests, failures, lastCall, rejections, itemStart,
                   lastRequest, runFixed, requested, persistedWork>>

\* time.sleep(API_DELAY), then the next attempt or, after the last, the final return
RejectWait ==
    /\ pc = "reject_wait"
    /\ waits' = Slept(API_DELAY)
    /\ IF attempt + 1 < MAX_RETRIES
       THEN /\ attempt' = attempt + 1
            /\ pc' = "attempt"
            /\ UNCHANGED <<server_retry, variation_hint, result, returned>>
       ELSE /\ result' = "exhausted"
            /\ returned' = Append(returned, [row |-> CurRow,
                                             description |-> candidate.seo_description])
            /\ LeaveGenerate
            /\ pc' = "update_row"
    /\ UNCHANGED <<disk, env, mainVars, response, candidate, verdict,
                   requests, attemptRequests, failures, lastCall, rejections, itemStart,
                   lastRequest, runFixed, requested, persistedWork>>

\* UpdateRow that writes the generated title over the Title column as well
UpdateRow_RewritesTitle ==
    /\ pc = "update_row"
    /\ rows' = [rows EXCEPT ![CurRow].Title = candidate.seo_title,
                            ![CurRow].SEOTitle = candidate.seo_title,
                            ![CurRow].SEODescription = candidate.seo_description]
    /\ pc' = "append_pool"
    /\ UNCHANGED <<disk, env, processed_handles, products_to_process,
                   existing_descriptions, idx, DETECTED_PRODUCT_TYPE, genVars, itemHist,
                   runHist, persistedWork>>

\* rows[row_index]["SEO Title"] = ...; rows[row_index]["SEO Description"] = ...
UpdateRow ==
    /\ pc = "update_row"
    /\ rows' = [rows EXCEPT ![CurRow].SEOTitle = candidate.seo_title,
                            ![CurRow].SEODescription = candidate.seo_description]
    /\ pc' = "append_pool"
    /\ UNCHANGED <<disk, env, processed_handles, products_to_process,
                   existing_descriptions, idx, DETECTED_PRODUCT_TYPE, genVars, itemHist,
                   runHist, persistedWork>>

\* AppendPool that appends the description twice
AppendPool_Twice ==
    /\ pc = "append_pool"
    /\ existing_descriptions' =
           Append(Append(existing_descriptions, candidate.seo_description),
                  candidate.seo_description)
    /\ pc' = "add_handle"
    /\ UNCHANGED <<disk, env, processed_handles, rows, products_to_process, idx,
                   DETECTED_PRODUCT_TYPE, genVars, itemHist, runHist, persistedWork>>

\* existing_descriptions.append(seo_description)
AppendPool ==
    /\ pc = "append_pool"
    /\ existing_descriptions' = Append(existing_descriptions, candidate.seo_description)
    /\ pc' = "add_handle"
    /\ UNCHANGED <<disk, env, processed_handles, rows, products_to_process, idx,
                   DETECTED_PRODUCT_TYPE, genVars, itemHist, runHist, persistedWork>>

\* processed_handles.add(handle)
AddHandle ==
    /\ pc = "add_handle"
    /\ processed_handles' = processed_handles \cup {CurHandle}
    /\ pc' = "save_progress"
    /\ UNCHANGED <<disk, env, rows, products_to_process, existing_descriptions, idx,
                   DETECTED_PRODUCT_TYPE, genVars, itemHist, runHist, persistedWork>>

\* SaveProgress that leaves the file as it is (saving deferred to the end of the run)
SaveProgress_Deferred ==
    /\ pc = "save_progress"
    /\ pc' = "pace"
    /\ UNCHANGED <<disk, env, mainVars, genVars, itemHist, runHist, persistedWork>>

\* save_progress(processed_handles)
SaveProgress ==
    /\ pc = "save_progress"
    /\ progressFile' = save_progress(processed_handles)
    /\ persistedWork' = [persistedWork EXCEPT ![CurRow] = <<rows[CurRow].SEODescription>>]
    /\ pc' = "pace"
    /\ UNCHANGED <<inputCsv, outputCsv, env, mainVars, genVars, itemHist, runHist>>

\* ExceptItem that marks the failed item as processed
ExceptItem_MarksProcessed ==
    /\ pc = "except"
    /\ processed_handles' = processed_handles \cup {CurHandle}
    /\ pc' = "pace"
    /\ UNCHANGED <<disk, env, rows, products_to_process, existing_descriptions, idx,
                   DETECTED_PRODUCT_TYPE, genVars, itemHist, runHist, persistedWork>>

\* ExceptItem that lets the error end the run
ExceptItem_AbortsRun ==
    /\ pc = "except"
    /\ pc' = "aborted"
    /\ UNCHANGED <<disk, env, mainVars, genVars, itemHist, runHist, persistedWork>>

\* except Exception: the error is printed and the item is skipped
ExceptItem ==
    /\ pc = "except"
    /\ pc' = "pace"
    /\ UNCHANGED <<disk, env, mainVars, genVars, itemHist, runHist, persistedWork>>

\* Pace that skips the item after the current one
Pace_SkipsItem ==
    /\ pc = "pace"
    /\ idx' = idx + 2
    /\ pc' = IF idx + 1 < Len(products_to_process) THEN "item" ELSE "write_output"
    /\ UNCHANGED <<disk, env, processed_handles, rows, products_to_process,
                   existing_descriptions, DETECTED_PRODUCT_TYPE, genVars, itemHist, runHist,
                   persistedWork>>

\* Pace without the sleep between two items
Pace_NoSleep ==
    /\ pc = "pace"
    /\ idx' = idx + 1
    /\ pc' = IF idx < Len(products_to_process) THEN "item" ELSE "write_output"
    /\ UNCHANGED <<disk, env, processed_handles, rows, products_to_process,
                   existing_descriptions, DETECTED_PRODUCT_TYPE, genVars, itemHist, runHist,
                   persistedWork>>

\* "Rate limiting": sleep unless this was the last item, then the next item
Pace ==
    /\ pc = "pace"
    /\ waits' = IF idx < Len(products_to_process) THEN Slept(API_DELAY) ELSE waits
    /\ idx' = idx + 1
    /\ pc' = IF idx < Len(products_to_process) THEN "item" ELSE "write_output"
    /\ UNCHANGED <<disk, env, processed_handles, rows, products_to_process,
                   existing_descriptions, DETECTED_PRODUCT_TYPE, genVars, requests,
                   attemptRequests, failures, lastCall, rejections, result, itemStart,
                   lastRequest, runHist, persistedWork>>

\* "Write output CSV": every row, processed or not
WriteOutput ==
    /\ pc = "write_output"
    /\ outputCsv' = [exists |-> TRUE, content |-> rows]
    /\ written' = TRUE
    /\ pc' = "done"
    /\ UNCHANGED <<inputCsv, progressFile, env, mainVars, genVars, itemHist,
                   observing, runs, afterCrash, startProgress, requested, returned, started,
                   priorRun, persistedWork>>

\* the process is terminated from outside: only the files survive
Crash ==
    /\ pc \notin Stopped
    /\ pc' = "crashed"
    /\ FreshMemory
    /\ UNCHANGED <<disk, env, observing, runs, afterCrash, startProgress, priorRun,
                   persistedWork>>

Next ==
    \/ \E ow \in BOOLEAN, key \in BOOLEAN, inp \in BOOLEAN : Launch(ow, key, inp)
    \/ CheckKey
    \/ LoadProgress
    \/ CheckInput
    \/ ReadInput
    \/ ItemBegin
    \/ AttemptBegin
    \/ \E r \in Responses : RequestOk(r)
    \/ RequestTransient
    \/ RequestFatal
    \/ Backoff
    \/ ParseAndGate
    \/ RejectWait
    \/ UpdateRow
    \/ AppendPool
    \/ AddHandle
    \/ SaveProgress
    \/ ExceptItem
    \/ Pace
    \/ WriteOutput
    \/ Crash

Spec == Init /\ [][Next]_vars

(***************************************************************************)
(* The loop of one run observed call by call: the state main() is in when  *)
(* it enters the loop, for every catalog and mode with something to        *)
(* process, and the steps of the loop with the per-item history kept.      *)
(***************************************************************************)
InitItem ==
    /\ inputCsv \in Catalogs
    /\ progressFile = NoFile
    /\ outputCsv = NoFile
    /\ overwrite \in BOOLEAN
    /\ api_key = TRUE
    /\ input_exists = TRUE
    /\ processed_handles = StartupProgress(overwrite, progressFile)
    /\ rows = inputCsv
    /\ products_to_process = SelectProducts(inputCsv, overwrite, processed_handles)
    /\ products_to_process # <<>>
    /\ existing_descriptions = CollectExisting(inputCsv, overwrite)
    /\ idx = 1
    /\ DETECTED_PRODUCT_TYPE = detect_product_type(inputCsv)
    /\ pc = "item"
    /\ attempt = 0
    /\ server_retry = 0
    /\ response = <<>>
    /\ candidate = NoCandidate
    /\ variation_hint = 0
    /\ verdict = NoVerdict
    /\ observing = TRUE
    /\ runs = 1
    /\ afterCrash = FALSE
    /\ startProgress = {}
    /\ requested = {}
    /\ requests = 0
    /\ attemptRequests = 0
    /\ failures = 0
    /\ lastCall = "none"
    /\ rejections = 0
    /\ result = "none"
    /\ returned = <<>>
    /\ itemStart = NoSnapshot
    /\ lastRequest = NoRequest
    /\ started = <<>>
    /\ waits = <<>>
    /\ priorRun = "none"
    /\ written = FALSE
    /\ persistedWork = [k \in 1..Len(inputCsv) |-> <<>>]

NextItem ==
    \/ ItemBegin
    \/ AttemptBegin
    \/ \E r \in Responses : RequestOk(r)
    \/ RequestTransient
    \/ RequestFatal
    \/ Backoff
    \/ ParseAndGate
    \/ RejectWait
    \/ UpdateRow
    \/ AppendPool
    \/ AddHandle
    \/ SaveProgress
    \/ ExceptItem
    \/ Pace

SpecItem == InitItem /\ [][NextItem]_vars

(***************************************************************************)
(* One run from its start to its end, left alone by the environment: the   *)
(* process is not terminated from outside, and a process that can take a   *)
(* step takes one (every sleep and every service call ends).               *)
(***************************************************************************)
InitRun ==
    /\ inputCsv \in Catalogs
    /\ progressFile = NoFile
    /\ outputCsv = NoFile
    /\ overwrite \in BOOLEAN
    /\ api_key \in BOOLEAN
    /\ input_exists \in BOOLEAN
    /\ processed_handles = {}
    /\ rows = <<>>
    /\ products_to_process = <<>>
    /\ existing_descriptions = <<>>
    /\ idx = 0
    /\ DETECTED_PRODUCT_TYPE = NoProductType
    /\ pc = "check_key"
    /\ attempt = 0
    /\ server_retry = 0
    /\ response = <<>>
    /\ candidate = NoCandidate
    /\ variation_hint = 0
    /\ verdict = NoVerdict
    /\ observing = FALSE
    /\ runs = 1
    /\ afterCrash = FALSE
    /\ startProgress = {}
    /\ requested = {}
    /\ requests = 0
    /\ attemptRequests = 0
    /\ failures = 0
    /\ lastCall = "none"
    /\ rejections = 0
    /\ result = "none"
    /\ returned = <<>>
    /\ itemStart = NoSnapshot
    /\ lastRequest = NoRequest
    /\ started = <<>>
    /\ waits = <<>>
    /\ priorRun = "none"
    /\ written = FALSE
    /\ persistedWork = [k \in 1..Len(inputCsv) |-> <<>>]

NextRun ==
    \/ CheckKey
    \/ LoadProgress
    \/ CheckInput
    \/ ReadInput
    \/ ItemBegin
    \/ AttemptBegin
    \/ \E r \in Responses : RequestOk(r)
    \/ RequestTransient
    \/ RequestFatal
    \/ Backoff
    \/ ParseAndGate
    \/ RejectWait
    \/ UpdateRow
    \/ AppendPool
    \/ AddHandle
    \/ SaveProgress
    \/ ExceptItem
    \/ Pace
    \/ WriteOutput

\* the values of pc
ProgramPoints ==
    Stopped \cup InGenerate \cup
    {"check_key", "load_progress", "check_input", "read_input", "item", "update_row",
     "append_pool", "add_handle", "save_progress", "except", "pace", "write_output"}

\* the running process moves on to another point of the program; every step
\* of NextRun is such a move, and one is possible wherever the process runs
Advance == pc \notin Stopped /\ pc' \in ProgramPoints /\ pc' # pc

SpecRun == InitRun /\ [][NextRun]_vars /\ WF_pc(Advance)

(***************************************************************************)
(* The parser and the gate on many inputs: generate_seo at the point where *)
(* a response has arrived, for titles up to and over the title cap,        *)
(* responses whose description is empty, short, mixed-case or over the     *)
(* description cap, and pools of up to two descriptions that the catalog   *)
(* already carries; from there the steps up to the append to the pool.     *)
(***************************************************************************)
\* every text of up to n characters over a two-letter alphabet
Texts(n) == UNION {[1..m -> {"a", "b"}] : m \in 0..n}

\* a text of n equal characters
LongText(c, n) == [k \in 1..n |-> c]

\* descriptions that name the term the parser rewrites: in each of its three
\* capitalizations, and with two spaces or a tab between its words
TermDescriptions ==
    { FauxLower, FauxCap, FauxTitle,
      <<"a", " ">> \o FauxTitle \o <<" ", "b">>,
      SubSeq(FauxLower, 1, 5) \o <<" ">> \o SubSeq(FauxLower, 6, 12),
      SubSeq(FauxCap, 1, 4) \o <<"\t">> \o SubSeq(FauxCap, 6, 12) }

\* the descriptions the service sends
GateDescriptions ==
    Texts(MaxText) \cup TermDescriptions \cup
    { <<"A", "b">>,
      LongText("a", MAX_SEO_DESCRIPTION_LENGTH),
      LongText("a", MAX_SEO_DESCRIPTION_LENGTH + 1) }

\* a response that supplies a title of its own and the description d
GateResponse(d) ==
    <<"S", "E", "O", " ", "T", "i", "t", "l", "e", ":", " ", "X", "\n">>
    \o <<"S", "E", "O", " ", "D", "e", "s", "c", "r", "i", "p", "t", "i", "o", "n", ":", " ">>
    \o d

\* the descriptions the catalog already carries
PoolTexts == { <<"a", "b">>, <<"b", "a">>, <<"a", "b", "b">>, <<"A", "B">>, <<"b">> }
GatePools ==
    {<<>>} \cup {<<p>> : p \in PoolTexts} \cup {<<p, q>> : p \in PoolTexts, q \in PoolTexts}

\* the title of the item: short, exactly at the cap, one over the cap
GateTitles ==
    { <<"T">>,
      LongText("x", MAX_SEO_TITLE_LENGTH),
      LongText("x", MAX_SEO_TITLE_LENGTH + 1) }

\* title, description and pool of one case: every short description against
\* every pool, and every title and description against the pools of up to one
GateInputs ==
    {c \in GateTitles \X GateDescriptions \X GatePools :
        \/ Len(c[1]) = 1 /\ Len(c[2]) <= MaxText
        \/ c[3] \in {<<>>, << <<"a", "b">> >>}}

\* a catalog with one product to process and the rows that carry the pool
GateCatalog(title, pool) ==
    <<Row(<<"h">>, title, <<>>, <<>>)>>
    \o [k \in 1..Len(pool) |-> Row(<<"h">>, <<>>, <<>>, pool[k])]

InitGate ==
    /\ \E c \in GateInputs : inputCsv = GateCatalog(c[1], c[3]) /\ response = GateResponse(c[2])
    /\ progressFile = NoFile
    /\ outputCsv = NoFile
    /\ overwrite = FALSE
    /\ api_key = TRUE
    /\ input_exists = TRUE
    /\ processed_handles = {}
    /\ rows = inputCsv
    /\ products_to_process = SelectProducts(inputCsv, overwrite, processed_handles)
    /\ existing_descriptions = CollectExisting(inputCsv, overwrite)
    /\ idx = 1
    /\ DETECTED_PRODUCT_TYPE = detect_product_type(inputCsv)
    /\ pc = "parse"
    /\ attempt \in IF existing_descriptions = <<>> THEN {0} ELSE {0, MAX_RETRIES - 1}
    /\ server_retry = 0
    /\ candidate = NoCandidate
    /\ variation_hint = attempt + 1
    /\ verdict = NoVerdict
    /\ observing = FALSE
    /\ runs = 1
    /\ afterCrash = FALSE
    /\ startProgress = {}
    /\ requested = {1}
    /\ requests = 0
    /\ attemptRequests = 0
    /\ failures = 0
    /\ lastCall = "none"
    /\ rejections = attempt
    /\ result = "none"
    /\ returned = <<>>
    /\ itemStart = [idx |-> 1, rows |-> rows, pool |-> existing_descriptions,
                    processed |-> {}, file |-> NoFile]
    /\ lastRequest = [temperature |-> TemperatureBase + attempt * TemperatureStep,
                      prompt |-> variation_hint]
    /\ started = <<1>>
    /\ waits = <<>>
    /\ priorRun = "none"
    /\ written = FALSE
    /\ persistedWork = [k \in 1..Len(inputCsv) |-> <<>>]

NextGate ==
    \/ ParseAndGate
    \/ RejectWait
    \/ UpdateRow
    \/ AppendPool

SpecGate == InitGate /\ [][NextGate]_vars

(***************************************************************************)
(* Product type detection on many catalogs: main() at the point where it   *)
(* reads the input, for catalogs whose rows name keywords of one, of       *)
(* several or of no product type, in the title, the body, the type or the  *)
(* tags.                                                                   *)
(***************************************************************************)
\* a row of the export with the columns detect_product_type reads
DetectRow(title, body, type, tags) ==
    Row(title, title, <<>>, <<>>) @@ [Body |-> body, Type |-> type, Tags |-> tags]

DetectRows ==
    { DetectRow(<<"C", "l", "o", "c", "k">>, <<>>, <<>>, <<>>),
      DetectRow(<<"b", "o", "t", "t", "l", "e">>, <<>>, <<>>, <<>>),
      DetectRow(<<"l", "a", "m", "p">>, <<>>, <<>>, <<>>),
      DetectRow(<<"x">>, <<>>, <<>>, <<"d", "i", "a", "l">>),
      DetectRow(<<"w", "a", "l", "l">>, <<"c", "l", "o", "c", "k">>, <<>>, <<>>),
      DetectRow(<<"y">>, <<>>, <<>>, <<>>),
      DetectRow(<<"s", "h", "a", "d", "e">>, <<>>, <<"f", "l", "a", "s", "k">>, <<>>) }

DetectCatalogs == UNION {[1..n -> DetectRows] : n \in 0..MaxDetectRows}

InitDetect ==
    /\ inputCsv \in DetectCatalogs
    /\ progressFile = NoFile
    /\ outputCsv = NoFile
    /\ overwrite \in BOOLEAN
    /\ api_key = TRUE
    /\ input_exists = TRUE
    /\ processed_handles = {}
    /\ rows = <<>>
    /\ products_to_process = <<>>
    /\ existing_descriptions = <<>>
    /\ idx = 0
    /\ DETECTED_PRODUCT_TYPE = NoProductType
    /\ pc = "read_input"
    /\ attempt = 0
    /\ server_retry = 0
    /\ response = <<>>
    /\ candidate = NoCandidate
    /\ variation_hint = 0
    /\ verdict = NoVerdict
    /\ observing = FALSE
    /\ runs = 1
    /\ afterCrash = FALSE
    /\ startProgress = {}
    /\ requested = {}
    /\ requests = 0
    /\ attemptRequests = 0
    /\ failures = 0
    /\ lastCall = "none"
    /\ rejections = 0
    /\ result = "none"
    /\ returned = <<>>
    /\ itemStart = NoSnapshot
    /\ lastRequest = NoRequest
    /\ started = <<>>
    /\ waits = <<>>
    /\ priorRun = "none"
    /\ written = FALSE
    /\ persistedWork = [k \in 1..Len(inputCsv) |-> <<>>]

NextDetect == ReadInput

SpecDetect == InitDetect /\ [][NextDetect]_vars

(***************************************************************************)
(* Claims                                                                  *)
(***************************************************************************)
\* s is an initial segment of t
IsPrefix(s, t) == Len(s) <= Len(t) /\ SubSeq(t, 1, Len(s)) = s

\* generate_seo has just returned to main
JustReturned == pc = "update_row"

\* generate_seo has raised: main handles the error, paces, and is at the loop
\* head of the next item or past the loop (the item history is that of the
\* failed item until the next item begins)
AfterRaise == {"except", "pace", "item", "write_output", "done"}

\* C1: orchestrator exhaustion. When generate_seo returns for an item all of
\* whose service calls succeeded and all of whose candidates the gate rejected,
\* exactly MAX_RETRIES requests were issued and the candidate returned is the
\* one parsed from the last response.
C1_Exhaustion ==
    (JustReturned /\ failures = 0 /\ rejections = requests)
        => /\ requests = MAX_RETRIES
           /\ candidate = parse_seo_response(response, CurTitle)
           /\ returned[Len(returned)] =
                  [row |-> CurRow, description |-> candidate.seo_description]

C1_Witness ==
    /\ observing
    /\ JustReturned
    /\ failures = 0
    /\ rejections = requests
    /\ rejections = MAX_RETRIES

\* C5: service errors within one attempt. An attempt issues at most
\* SERVER_RETRIES requests; after a transient failure below the cap the
\* orchestrator waits and requests again; the last transient failure of the
\* cap ends the item as failed; a non-transient failure ends the item as
\* failed at once, with no wait and no further request.
C5_ServiceErrors ==
    /\ attemptRequests <= SERVER_RETRIES
    /\ (lastCall = "transient" /\ attemptRequests < SERVER_RETRIES)
           => pc \in {"backoff", "request"}
    /\ (lastCall = "transient" /\ attemptRequests = SERVER_RETRIES)
           => \/ pc = "backoff"
              \/ pc \in AfterRaise /\ result = "failed"
    /\ lastCall = "fatal" => pc \in AfterRaise /\ result = "failed"

C5_Witness ==
    /\ lastCall = "transient"
    /\ attemptRequests = SERVER_RETRIES
    /\ pc = "except"
    /\ result = "failed"

\* the identifier of row i of the catalog
HandleOf(i) == Strip(inputCsv[i].Handle)

\* row i of the catalog is a product (it has a title)
Titled(i) == Strip(inputCsv[i].Title) # <<>>

\* main() is past the selection of products_to_process
Selected == pc \notin Stopped \cup {"check_key", "load_progress", "check_input", "read_input"}

\* C2: progress resumption. In a run without --overwrite no service request
\* is issued for a row whose identifier was in the persisted progress set
\* when the run started.
C2_ProgressResumption ==
    ~overwrite => \A i \in requested : HandleOf(i) \notin startProgress

C2_Witness ==
    /\ ~overwrite
    /\ requested # {}
    /\ \E i \in DOMAIN inputCsv :
           /\ Titled(i)
           /\ Strip(inputCsv[i].SEODescription) = <<>>
           /\ HandleOf(i) \in startProgress

\* C3: crash safety. When a run without --overwrite that follows a
\* terminated run has written its output, every row whose identifier was
\* persisted carries, in the output, the description generated for it.
C3_CrashSafety ==
    (pc = "done" /\ ~overwrite /\ afterCrash)
        => \A i \in DOMAIN persistedWork :
               persistedWork[i] # <<>>
                   => outputCsv.content[i].SEODescription = persistedWork[i][1]

\* C6 as claimed: a run with --overwrite issues no request for a row whose
\* identifier was in the persisted progress set when the run started.
C6_ForcedRunHonoursProgress ==
    overwrite => \A i \in requested : HandleOf(i) \notin startProgress

\* C6 as amended: a run with --overwrite discards the persisted progress at
\* startup (empty set, file removed) and selects every titled row, whether
\* or not its identifier was in the persisted progress set.
C6_ForcedRunStartsOver ==
    /\ (overwrite /\ pc = "check_input") => processed_handles = {} /\ progressFile = NoFile
    /\ (overwrite /\ Selected)
           => products_to_process =
                  SelectSeq([k \in 1..Len(inputCsv) |-> k], LAMBDA k : Titled(k))

C6_Witness ==
    /\ overwrite
    /\ \E i \in requested : HandleOf(i) \in startProgress

\* the row of the item that began last, and its identifier
LastRow == products_to_process[itemStart.idx]
LastHandle == HandleOf(LastRow)

\* the handles listed in the progress file (none without a file)
Persisted == {progressFile.content[k] : k \in 1..Len(progressFile.content)}

\* the descriptions generate_seo returned in this run, in order
ReturnedDescriptions == [k \in 1..Len(returned) |-> returned[k].description]

\* the non-empty generated descriptions the catalog already carries, stripped, in row order
InputDescriptions ==
    LET kept == SelectSeq(inputCsv, LAMBDA row : Strip(row.SEODescription) # <<>>)
    IN  [k \in 1..Len(kept) |-> Strip(kept[k].SEODescription)]

\* C4: fatal-for-item error. Once generate_seo has raised for an item, the
\* rows, the pool, the in-memory progress set and the progress file are as
\* they were when the item began, its identifier is not marked processed,
\* and the loop goes on to the next selected item (or ends after the last).
C4_FatalForItem ==
    result = "failed"
        => /\ rows = itemStart.rows
           /\ existing_descriptions = itemStart.pool
           /\ processed_handles = itemStart.processed
           /\ progressFile = itemStart.file
           /\ LastHandle \notin processed_handles \cup Persisted
           /\ pc \in AfterRaise
           /\ pc = "item" => idx = itemStart.idx + 1 /\ idx <= Len(products_to_process)
           /\ pc \in {"write_output", "done"} => itemStart.idx = Len(products_to_process)

C4_Witness ==
    /\ result = "failed"
    /\ pc = "item"
    /\ idx = itemStart.idx + 1
    /\ requested = {LastRow}

\* C7: pool growth. During a run the pool only grows at its end; an item for
\* which generate_seo returned has its returned description appended exactly
\* once by the time the loop reaches the next item; while generate_seo runs
\* (rejected candidates included) and after it raised, nothing is appended.
C7_Appends ==
    /\ pc \in InGenerate \cup {"update_row", "append_pool"}
           => existing_descriptions = itemStart.pool
    /\ result = "failed" => existing_descriptions = itemStart.pool
    /\ (result \in {"accepted", "exhausted"}
        /\ pc \in {"add_handle", "save_progress", "pace", "item", "write_output", "done"})
           => existing_descriptions =
                  Append(itemStart.pool, returned[Len(returned)].description)

C7_Step == (Selected /\ Selected') => IsPrefix(existing_descriptions, existing_descriptions')

C7_PoolGrowth == []C7_Appends /\ [][C7_Step]_vars

C7_Witness ==
    /\ pc = "request"
    /\ rejections > 0
    /\ Len(returned) = 1
    /\ existing_descriptions # <<>>

\* C8 as claimed: when a candidate is about to be gated, the pool is exactly
\* the descriptions returned for the items processed earlier in the run.
C8_PoolIsEarlierItemsOnly ==
    pc = "parse" => existing_descriptions = ReturnedDescriptions

\* C8 as amended: when a candidate is about to be gated, the pool is the
\* stripped non-empty generated descriptions of the input rows (none with
\* --overwrite), in row order, followed by exactly the descriptions returned
\* for the items processed earlier in the run, in processing order.
C8_PoolContent ==
    pc = "parse"
        => existing_descriptions =
               (IF overwrite THEN <<>> ELSE InputDescriptions) \o ReturnedDescriptions

C8_Witness ==
    /\ pc = "parse"
    /\ ~overwrite
    /\ InputDescriptions # <<>>
    /\ returned # <<>>

\* C9: progress-set ordering. Once the identifier of the item that began last
\* is in the progress set, its row carries the returned title and description;
\* and whenever the loop is at an item or inside generate_seo, the progress
\* file lists exactly the in-memory set, which contains the identifier of
\* every item completed so far in the run.
C9_ProgressOrdering ==
    /\ (Selected /\ itemStart.idx > 0 /\ processed_handles # itemStart.processed)
           => /\ rows[LastRow].SEOTitle = candidate.seo_title
              /\ rows[LastRow].SEODescription = candidate.seo_description
              /\ processed_handles = itemStart.processed \cup {LastHandle}
    /\ pc \in InGenerate \cup {"item"}
           => /\ Persisted = processed_handles
              /\ \A k \in 1..Len(returned) : HandleOf(returned[k].row) \in Persisted

C9_Witness ==
    /\ pc = "request"
    /\ attempt = 0
    /\ requested = {returned[k].row : k \in 1..Len(returned)}
    /\ returned # <<>>

\* C10: similarity-exhausted is a degraded success. When the loop has handled
\* an item all of whose MAX_RETRIES candidates the gate rejected, the row
\* carries the last candidate, the pool ends with its description, and the
\* identifier is in the progress set and in the progress file.
C10_ExhaustedIsSuccess ==
    (pc = "pace" /\ rejections = MAX_RETRIES)
        => /\ rows[CurRow].SEOTitle = candidate.seo_title
           /\ rows[CurRow].SEODescription = candidate.seo_description
           /\ candidate = parse_seo_response(response, CurTitle)
           /\ existing_descriptions = Append(itemStart.pool, candidate.seo_description)
           /\ CurHandle \in processed_handles
           /\ CurHandle \in Persisted

C10_Witness ==
    /\ pc = "pace"
    /\ rejections = MAX_RETRIES

\* the output collection has one record per input record, in input order
OutputMatchesInput ==
    /\ outputCsv.exists
    /\ Len(outputCsv.content) = Len(inputCsv)
    /\ \A i \in DOMAIN inputCsv :
           /\ outputCsv.content[i].Handle = inputCsv[i].Handle
           /\ outputCsv.content[i].Title = inputCsv[i].Title

\* C11: per-item failures never abort the run. Whatever the service answers
\* (success, transient failure, non-transient failure, gate rejection), a run
\* that has passed the configuration checks ends, and it ends having begun
\* every selected item, issued a request for each of them, and written an
\* output with one record per input record in input order.
C11_RunCompletes ==
    (pc = "read_input")
        ~> /\ pc = "done"
           /\ written
           /\ started = products_to_process
           /\ requested = Range(products_to_process)
           /\ OutputMatchesInput

C11_Witness ==
    /\ pc = "done"
    /\ written
    /\ result = "failed"
    /\ returned # <<>>
    /\ Len(started) > Len(returned)
    /\ OutputMatchesInput

\* main() has not got past its configuration checks
BeforeProcessing == {"check_key", "load_progress", "check_input", "aborted", "crashed"}

\* C12: configuration error. In a run started without the credential or
\* without the input file, the process never gets past the configuration
\* checks: no item is selected or begun, no service request is issued and the
\* output is not written.
C12_ConfigurationError ==
    (runs > 0 /\ (~api_key \/ ~input_exists))
        => /\ pc \in BeforeProcessing
           /\ products_to_process = <<>>
           /\ started = <<>>
           /\ requested = {}
           /\ ~written

C12_Witness ==
    /\ pc = "aborted"
    /\ api_key
    /\ ~input_exists
    /\ outputCsv.exists
    /\ ~written

\* the rows generate_seo returned a candidate for in this run
ReturnedRows == {returned[k].row : k \in 1..Len(returned)}

\* C13: output frame. In the output a run has written, a row that was not
\* successfully processed in the run equals its input row, and a processed
\* row has the fields of its input row and differs from it at most in the
\* generated title and the generated description; Title is never rewritten.
C13_OutputFrame ==
    written
        => /\ Len(outputCsv.content) = Len(inputCsv)
           /\ \A i \in DOMAIN inputCsv :
                  /\ i \notin ReturnedRows => outputCsv.content[i] = inputCsv[i]
                  /\ DOMAIN outputCsv.content[i] = DOMAIN inputCsv[i]
                  /\ \A f \in DOMAIN inputCsv[i] \ {"SEOTitle", "SEODescription"} :
                         outputCsv.content[i][f] = inputCsv[i][f]

C13_Witness ==
    /\ written
    /\ \E i \in DOMAIN inputCsv : i \notin ReturnedRows /\ Titled(i)
    /\ \E i \in ReturnedRows :
           /\ outputCsv.content[i] # inputCsv[i]
           /\ inputCsv[i].Title # Strip(inputCsv[i].Title)

\* C18: progress state at startup. After the "Load progress" step and before
\* any item is selected or begun, the in-memory progress set is empty when no
\* progress file exists, and in overwrite mode the set is empty and the
\* progress file is gone.
C18_ProgressAtStartup ==
    pc \in {"check_input", "read_input"}
        => /\ (~overwrite /\ ~progressFile.exists) => processed_handles = {}
           /\ overwrite => /\ processed_handles = {}
                           /\ ~progressFile.exists
                           /\ load_progress(progressFile) = {}
           /\ products_to_process = <<>>
           /\ started = <<>>
           /\ requested = {}

C18_Witness ==
    /\ pc = "check_input"
    /\ overwrite
    /\ startProgress # {}

\* C19: strictly sequential processing. The selected rows are in catalog
\* order; the items begun are an initial segment of them, so each is begun at
\* most once and in order, and all of them have begun when the loop is over;
\* an item begins only when the item before it has ended in success or
\* failure; a request is issued for the item begun last only, one per step,
\* and its outcome is known when the step ends.
C19_Order ==
    /\ \A k \in 1..(Len(products_to_process) - 1) :
           products_to_process[k] < products_to_process[k + 1]
    /\ IsPrefix(started, products_to_process)
    /\ requested \subseteq Range(started)
    /\ pc \in InGenerate => Len(started) = idx
    /\ pc = "write_output" => started = products_to_process

C19_Step ==
    /\ started' # started
           => /\ started' = Append(started, products_to_process[Len(started) + 1])
              /\ started = <<>> \/ result \in {"accepted", "exhausted", "failed"}
              /\ result \in {"accepted", "exhausted"}
                     => HandleOf(started[Len(started)]) \in processed_handles
    /\ requests' # requests /\ requests' # 0
           => /\ requests' = requests + 1
              /\ pc = "request" /\ pc' \in {"parse", "backoff", "except"}
              /\ requested' = requested \cup {started[Len(started)]}

C19_Sequential == []C19_Order /\ [][C19_Step]_vars

C19_Witness ==
    /\ pc = "parse"
    /\ Len(started) > 1
    /\ requests = 1

\* C20: attempt parameters. Inside generate_seo one hint has been drawn per
\* attempt begun; every request of attempt i (from 0), up to the next attempt's
\* draw, carries the temperature
\* 0.50, 0.65, 0.80 for i = 0, 1, 2, in hundredths, whatever the server retry,
\* and the prompt drawn at the start of that attempt.
C20_AttemptParameters ==
    /\ pc \in InGenerate
           => variation_hint = IF pc = "attempt" THEN attempt ELSE attempt + 1
    /\ (pc \in InGenerate \ {"attempt"} /\ attemptRequests > 0)
           => /\ lastRequest.temperature = <<50, 65, 80>>[attempt + 1]
              /\ lastRequest.prompt = attempt + 1

C20_Witness ==
    /\ pc = "backoff"
    /\ attempt = MAX_RETRIES - 1
    /\ attemptRequests > 2
    /\ lastRequest.temperature = 80

\* x = y on fractions with positive denominators
FracEq(x, y) == x[1] * y[2] = y[1] * x[2]

\* the gate has judged the candidate, and the pool is still the one it was judged against
Gated == pc \in {"reject_wait", "update_row"}

\* the ratio of the candidate to each member of the pool, and the largest of them
GateRatios ==
    [k \in 1..Len(existing_descriptions) |->
        Ratio(Lower(candidate.seo_description), Lower(existing_descriptions[k]))]
MaxRatio ==
    GateRatios[CHOOSE k \in DOMAIN GateRatios :
                   \A m \in DOMAIN GateRatios : ~FracLess(GateRatios[k], GateRatios[m])]

\* the first member of the pool whose ratio is the largest
FirstNearest ==
    existing_descriptions[CHOOSE k \in DOMAIN GateRatios :
                              /\ FracEq(GateRatios[k], MaxRatio)
                              /\ \A m \in 1..(k - 1) : ~FracEq(GateRatios[m], MaxRatio)]

\* what the gate reports besides the nearest match: (true, 0, "") for an empty
\* pool; otherwise accepted iff the largest ratio is below 0.80, and that ratio
\* as the score; check(x, [x]) is (false, 1.0, x)
GateVerdictAndScore ==
    IF existing_descriptions = <<>>
    THEN verdict = [is_ok |-> TRUE, score |-> <<0, 1>>, match |-> <<>>]
    ELSE /\ verdict.is_ok = FracLess(MaxRatio, <<4, 5>>)
         /\ FracEq(verdict.score, MaxRatio)
         /\ existing_descriptions = <<candidate.seo_description>>
                => /\ ~verdict.is_ok
                   /\ FracEq(verdict.score, <<1, 1>>)
                   /\ verdict.match = candidate.seo_description

\* C14 as claimed: similarity gate result, where for a non-empty pool the
\* nearest match reported is a pool member that attains the largest ratio.
C14_NearestIsPoolMember ==
    Gated
        => /\ GateVerdictAndScore
           /\ existing_descriptions # <<>>
                  => \E k \in DOMAIN GateRatios :
                         /\ verdict.match = existing_descriptions[k]
                         /\ FracEq(GateRatios[k], MaxRatio)

\* C14 as amended: similarity gate result, where for a non-empty pool the
\* nearest match reported is the first pool member that attains the largest
\* ratio when that ratio is positive, and the empty text when it is 0.
C14_GateResult ==
    Gated
        => /\ GateVerdictAndScore
           /\ existing_descriptions # <<>>
                  => verdict.match = IF MaxRatio[1] = 0 THEN <<>> ELSE FirstNearest

C14_Witness ==
    /\ pc = "reject_wait"
    /\ Len(existing_descriptions) > 1
    /\ existing_descriptions[1] # existing_descriptions[2]
    /\ verdict.match = existing_descriptions[2]
    /\ FracLess(verdict.score, <<1, 1>>)

\* C15 as claimed: fixed-title policy. The title parse_seo_response returns
\* is the original title of the item, unchanged.
C15_TitleVerbatim ==
    Gated => candidate.seo_title = CurTitle

\* C15 as amended: fixed-title policy. The title parse_seo_response returns
\* is the original title of the item cut to its first MAX_SEO_TITLE_LENGTH
\* characters, so the original title unchanged when it is no longer than
\* that, whatever title the response supplies.
C15_TitleFixed ==
    Gated
        => /\ IsPrefix(candidate.seo_title, CurTitle)
           /\ Len(candidate.seo_title) =
                  IF Len(CurTitle) > MAX_SEO_TITLE_LENGTH
                  THEN MAX_SEO_TITLE_LENGTH
                  ELSE Len(CurTitle)

C15_Witness ==
    /\ Gated
    /\ Len(CurTitle) > MAX_SEO_TITLE_LENGTH
    /\ candidate.seo_title # <<>>
    /\ candidate.seo_title # CurTitle

\* C16: length caps. A generated title written to a row has at most
\* MAX_SEO_TITLE_LENGTH characters, and a generated description written to a
\* row or appended to the pool has at most MAX_SEO_DESCRIPTION_LENGTH, on the
\* accepted and on the exhausted path.
C16_LengthCaps ==
    /\ pc \in {"append_pool", "add_handle"}
           => /\ result \in {"accepted", "exhausted"}
              /\ Len(rows[CurRow].SEOTitle) <= MAX_SEO_TITLE_LENGTH
              /\ Len(rows[CurRow].SEODescription) <= MAX_SEO_DESCRIPTION_LENGTH
    /\ \A k \in (Len(itemStart.pool) + 1)..Len(existing_descriptions) :
           Len(existing_descriptions[k]) <= MAX_SEO_DESCRIPTION_LENGTH

C16_Witness ==
    /\ pc = "add_handle"
    /\ Len(CurTitle) > MAX_SEO_TITLE_LENGTH
    /\ Len(rows[CurRow].SEOTitle) = MAX_SEO_TITLE_LENGTH
    /\ Len(response) > MAX_SEO_DESCRIPTION_LENGTH + Len(GateResponse(<<>>))
    /\ Len(existing_descriptions) > Len(itemStart.pool)
    /\ Len(existing_descriptions[Len(existing_descriptions)]) = MAX_SEO_DESCRIPTION_LENGTH

\* the keyword score of a product type over the catalog
Score(t) == TypeScore(inputCsv, t)

\* the position of a product type in declaration order
Rank(t) == CHOOSE k \in 1..Len(ProductTypes) : ProductTypes[k] = t

\* C17: category detection. The detected product type is one of the three;
\* it is wall_clocks when every score is 0; otherwise no type scores higher
\* and every type declared before it scores lower; and when exactly one type
\* has a score above 0, it is that type.
C17_CategoryDetection ==
    DETECTED_PRODUCT_TYPE # NoProductType
        => /\ DETECTED_PRODUCT_TYPE \in Range(ProductTypes)
           /\ (\A t \in Range(ProductTypes) : Score(t) = 0)
                  => DETECTED_PRODUCT_TYPE = "wall_clocks"
           /\ \A t \in Range(ProductTypes) :
                  /\ Score(t) <= Score(DETECTED_PRODUCT_TYPE)
                  /\ Rank(t) < Rank(DETECTED_PRODUCT_TYPE)
                         => Score(t) < Score(DETECTED_PRODUCT_TYPE)
                  /\ (Score(t) > 0 /\ \A u \in Range(ProductTypes) \ {t} : Score(u) = 0)
                         => DETECTED_PRODUCT_TYPE = t

C17_Witness ==
    /\ DETECTED_PRODUCT_TYPE = "water_bottles"
    /\ Len(inputCsv) > 1
    /\ Score("water_bottles") > Score("wall_clocks")
    /\ Score("lamp_shades") = Score("water_bottles")

\* C21: inter-attempt delay on rejection. When a rejected attempt is followed
\* by another attempt, the one delay taken since the rejected attempt's
\* request is the inter-attempt delay API_DELAY; when generate_seo returns,
\* after an accepted candidate or after the rejection of the final attempt, no
\* delay has been taken since the last request.
C21_InterAttemptDelay ==
    /\ (pc = "attempt" /\ attempt > 0) => waits = <<API_DELAY>>
    /\ (JustReturned /\ result = "accepted") => waits = <<>>
    /\ (JustReturned /\ result = "exhausted") => waits = <<>>

\* what C22 says of the waits that are followed by a re-request, and of the
\* counters: when the k-th request of an attempt has failed (k below the cap)
\* and the next is about to be issued, exactly one wait has been taken since
\* the failure, of k * 8 seconds; no wait is taken before the first request of
\* an attempt, where the count of the attempt's requests is back at 0; an
\* attempt issues at most 5 requests and an item at most 3 * 5 = 15.
BackoffBeforeRetry ==
    /\ (pc = "request" /\ server_retry > 0)
           => /\ lastCall = "transient"
              /\ attemptRequests = server_retry
              /\ waits = <<attemptRequests * 8>>
    /\ (pc = "request" /\ server_retry = 0) => attemptRequests = 0
    /\ pc = "backoff" => attemptRequests = server_retry + 1 /\ waits = <<>>
    /\ attemptRequests <= 5
    /\ requests <= 15

\* the retry cap is exhausted: the fifth request of the attempt has failed and
\* the error has been raised to main
CapExhausted == pc = "except" /\ lastCall = "transient"

\* C22 as claimed: backoff schedule, where no wait is taken once the retry cap
\* is exhausted.
C22_NoWaitAtCap ==
    /\ BackoffBeforeRetry
    /\ CapExhausted => attemptRequests = 5 /\ waits = <<>>

\* C22 as amended: backoff schedule, where the fifth failure of an attempt is
\* followed by its wait of 40 seconds like the others, and the error is raised
\* after that wait, with no further request.
C22_BackoffSchedule ==
    /\ BackoffBeforeRetry
    /\ CapExhausted => attemptRequests = 5 /\ waits = <<40>>

C22_Witness ==
    /\ CapExhausted
    /\ waits = <<40>>
    /\ rejections = 2
    /\ requests = 15

\* C23: request pacing. Whenever a service request is about to be issued and
\* the run has issued one before, a deliberate delay of at least 5 seconds has
\* been taken since the previous request: between two server retries, two
\* attempts of one item, or the requests of two items, the earlier of which
\* may have failed.
C23_RequestPacing ==
    (pc = "request" /\ requested # {})
        => \E k \in DOMAIN waits : waits[k] >= 5

C23_Witness ==
    /\ pc = "request"
    /\ idx > 1
    /\ requests = 0
    /\ waits = <<40, 5>>

\* C24: repeated runs keep completed work. In a run without --overwrite that
\* follows a run without --overwrite which completed every item it selected,
\* no service request is issued, and the output carries, for every row whose
\* identifier is in the progress set, the description that was generated for it.
C24_RepeatedRunKeepsWork ==
    (priorRun = "clean" /\ ~overwrite)
        => /\ requested = {}
           /\ \A i \in DOMAIN persistedWork :
                  (/\ HandleOf(i) \in load_progress(progressFile)
                   /\ persistedWork[i] # <<>>
                   /\ persistedWork[i][1] # <<>>)
                      => /\ outputCsv.exists
                         /\ outputCsv.content[i].SEODescription = persistedWork[i][1]

\* C25: a configuration error leaves the persisted state untouched. When a
\* run has aborted because the credential or the input file is missing, with
\* or without --overwrite, the persisted progress set is the one the run
\* found when it started.
C25_ConfigErrorKeepsProgress ==
    pc = "aborted" => load_progress(progressFile) = startProgress

\* the description of the response that was parsed, as the service sent it
RawDescription == Drop(response, Len(GateResponse(<<>>)))

\* d is the two words of the term, written as first and second, with a run of
\* one or more whitespace characters between them
IsTermWithGap(d, first, second) ==
    /\ Len(d) > Len(first) + Len(second)
    /\ SubSeq(d, 1, Len(first)) = first
    /\ SubSeq(d, Len(d) - Len(second) + 1, Len(d)) = second
    /\ \A k \in (Len(first) + 1)..(Len(d) - Len(second)) : d[k] \in Whitespace

\* C26: banned-term removal. The description parse_seo_response returns
\* contains none of "faux leather", "Faux leather", "Faux Leather"; and a
\* response description that is the term alone, its two words separated by a
\* run of whitespace, comes out as the synonym of the same capitalization.
C26_BannedTermRemoved ==
    Gated
        => /\ ~Contains(candidate.seo_description, FauxLower)
           /\ ~Contains(candidate.seo_description, FauxCap)
           /\ ~Contains(candidate.seo_description, FauxTitle)
           /\ IsTermWithGap(RawDescription, <<"f", "a", "u", "x">>,
                            <<"l", "e", "a", "t", "h", "e", "r">>)
                  => candidate.seo_description = VinylLower
           /\ IsTermWithGap(RawDescription, <<"F", "a", "u", "x">>,
                            <<"l", "e", "a", "t", "h", "e", "r">>)
                  => candidate.seo_description = VinylCap
           /\ IsTermWithGap(RawDescription, <<"F", "a", "u", "x">>,
                            <<"L", "e", "a", "t", "h", "e", "r">>)
                  => candidate.seo_description = VinylCap

\* C27: processed implies enriched. Every item of the run whose identifier
\* is in the progress set (which the run started with empty) has a row whose
\* generated description is not empty.
C27_ProcessedImpliesEnriched ==
    \A i \in Range(started) :
        HandleOf(i) \in processed_handles => rows[i].SEODescription # <<>>

====
